---- MODULE Spec2Model ----
(***************************************************************************)
(* Model of sharedfolders/__init__.py: the decision matrix of the shared   *)
(* folders service, its lookups, its one-time grants, the reconciliation   *)
(* of the policy files and the persistence of the matrix document.         *)
(*                                                                         *)
(* Strings that the code inspects character by character (folders) are     *)
(* sequences of one-character strings.  A fingerprint is the injective     *)
(* numeric code of its triple (the sha256 digest is modelled as collision  *)
(* free; the numeric order stands for the order of the hex digests).       *)
(***************************************************************************)
EXTENDS Integers, Sequences, FiniteSets, TLC

\* matrix, files, disk: the matrix of the process, the policy files, the
\* document at POLICY_DB; ret: the last call and its result; tmp: the file
\* at POLICY_DB + ".tmp"; seen: the document a concurrent reader last read;
\* pmatrix, pc, fdAt, off, existing_policy_files: the matrix, position, open
\* file, file offset or loop index, and list of globbed policy files
\* of each process that runs its steps among those of another
VARIABLES matrix, files, disk, tmp, ret, seen, pmatrix, pc, fdAt, off,
          existing_policy_files

vars ==
    <<matrix, files, disk, tmp, ret, seen, pmatrix, pc, fdAt, off, existing_policy_files>>

\* what only the step-by-step save of several processes changes
saverVars == <<tmp, pmatrix, pc, fdAt, off, existing_policy_files>>

(* ---------------------------- bounds ----------------------------------- *)

\* the largest number of decisions the matrix may hold
MaxEntries == 2

\* the longest path contains is tried on
MaxPathLen == 4

(* ---------------------------- small helpers ---------------------------- *)

RECURSIVE SeqToSet(_)
SeqToSet(s) == IF s = <<>> THEN {} ELSE {Head(s)} \cup SeqToSet(Tail(s))

Reverse(s) == [i \in 1..Len(s) |-> s[Len(s) + 1 - i]]

StartsWith(s, p) == Len(p) <= Len(s) /\ SubSeq(s, 1, Len(p)) = p

EndsWith(s, p) == Len(p) <= Len(s) /\ SubSeq(s, Len(s) - Len(p) + 1, Len(s)) = p

(* ---------------------------- Response --------------------------------- *)

RESPONSES == {"ALLOW_ONETIME", "DENY_ONETIME", "ALLOW_ALWAYS", "DENY_ALWAYS", "BLOCK"}

is_allow(r) == r \in {"ALLOW_ONETIME", "ALLOW_ALWAYS"}

is_onetime(r) == r \in {"ALLOW_ONETIME", "DENY_ONETIME"}

is_block(r) == r = "BLOCK"

(* ---------------------------- paths ------------------------------------ *)

sep == <<"/">>

\* the components of a path: the maximal runs without a separator, the
\* empty ones dropped (os.path.normpath; the alphabet has no "." so no
\* "." or ".." component arises)
RECURSIVE SplitPath(_, _)
SplitPath(p, cur) ==
    IF p = <<>> THEN (IF cur = <<>> THEN <<>> ELSE <<cur>>)
    ELSE IF Head(p) = "/"
         THEN (IF cur = <<>> THEN <<>> ELSE <<cur>>) \o SplitPath(Tail(p), <<>>)
         ELSE SplitPath(Tail(p), Append(cur, Head(p)))

RECURSIVE JoinPath(_)
JoinPath(comps) ==
    IF comps = <<>> THEN <<>>
    ELSE IF Len(comps) = 1 THEN Head(comps)
    ELSE Head(comps) \o sep \o JoinPath(Tail(comps))

\* POSIX keeps exactly two leading slashes and folds three or more into one
InitialSlashes(p) ==
    IF StartsWith(p, <<"/", "/">>) /\ ~StartsWith(p, <<"/", "/", "/">>)
    THEN <<"/", "/">> ELSE sep

\* os.path.abspath of an absolute path
abspath(p) == InitialSlashes(p) \o JoinPath(SplitPath(p, <<>>))

\* faulty variant: the plain string prefix, no trailing separator appended
contains_NoSep(needle, haystack) ==
    LET n == abspath(needle)
        h == abspath(haystack)
    IN  n = h \/ StartsWith(n, h)

contains(needle, haystack) ==
    LET n0 == abspath(needle)
        h0 == abspath(haystack)
        n  == IF EndsWith(n0, sep) THEN n0 ELSE n0 \o sep
        h  == IF EndsWith(h0, sep) THEN h0 ELSE h0 \o sep
    IN  n = h \/ StartsWith(n, h)

(* ---------------------------- the bounded inputs ------------------------ *)

Sources == {"work"}

Targets == {"vault", "dev"}

Root == <<"/">>

\* the folders decisions are recorded for: a chain of nested folders
Folders == {Root, <<"/", "a">>, <<"/", "a", "/", "b">>}

\* the folders requests ask for: the same, and a sibling of /a that has /a
\* as a string prefix
ReqFolders == Folders \cup {<<"/", "a", "b">>}

\* the triples decisions are recorded for: the folders of one machine pair
Recordable == {<<"work", "vault", f>> : f \in Folders}

\* the triples lookups ask for: that pair, and a second pair
Requests ==
    {<<"work", "vault", f>> : f \in ReqFolders} \cup {<<"work", "dev", <<"/", "a">>>>}

(* ---------------------------- fingerprints ----------------------------- *)

CharCode(c) == CASE c = "/" -> 1 [] c = "a" -> 2 [] c = "b" -> 3

NameCode(n) == CASE n = "work" -> 1 [] n = "vault" -> 2 [] n = "dev" -> 3

\* the digits are never 0, so the code is injective on strings of any length
RECURSIVE PathCode(_)
PathCode(f) == IF f = <<>> THEN 0 ELSE CharCode(Head(f)) + 4 * PathCode(Tail(f))

fingerprint_decision(source, target, folder) ==
    NameCode(source) + 4 * (NameCode(target) + 4 * PathCode(folder))

Fingerprints == {fingerprint_decision(q[1], q[2], q[3]) : q \in Recordable}

\* a fingerprint that no recordable triple has
ForeignKey == fingerprint_decision("dev", "work", Root)

AllKeys == Fingerprints \cup {ForeignKey}

(* ---------------------------- Decision, the dict ----------------------- *)

\* one item of the matrix: the key and the four fields of its Decision
Decision(k, source, target, folder, response) ==
    [key |-> k, source |-> source, target |-> target, folder |-> folder,
     response |-> response]

\* Python's None, in the shape of an item
NoDecision == Decision(0 - 1, "", "", <<>>, "None")

Keys(m) == {m[i].key : i \in 1..Len(m)}

DictGet(m, k) ==
    IF k \in Keys(m) THEN m[CHOOSE i \in 1..Len(m) : m[i].key = k] ELSE NoDecision

\* self[k] = d: a key already present keeps its position, a new one goes last
DictSet(m, d) ==
    IF d.key \in Keys(m)
    THEN [i \in 1..Len(m) |-> IF m[i].key = d.key THEN d ELSE m[i]]
    ELSE Append(m, d)

KeyIsNot(k, e) == e.key # k

DictDel(m, k) == SelectSeq(m, LAMBDA e : KeyIsNot(k, e))

\* the matrix as a mapping, its insertion order forgotten
AsMap(m) == [k \in Keys(m) |-> DictGet(m, k)]

(* ---------------------------- the document: save and load -------------- *)

\* The text of the document is a sequence of tokens: the opening brace, one
\* token per item (key, source, target, folder, response name), the closing
\* brace.  A hole is what a write beyond the end of a truncated file leaves.
Token(tok, item) == [tok |-> tok, item |-> item]

OpenTok == Token("{", NoDecision)

CloseTok == Token("}", NoDecision)

HoleTok == Token("hole", NoDecision)

NoFile == [exists |-> FALSE, content |-> <<>>]

File(content) == [exists |-> TRUE, content |-> content]

\* sort_keys=True: the items by ascending key
RECURSIVE InsertByKey(_, _)
InsertByKey(e, sorted) ==
    IF sorted = <<>> THEN <<e>>
    ELSE IF e.key < Head(sorted).key THEN <<e>> \o sorted
    ELSE <<Head(sorted)>> \o InsertByKey(e, Tail(sorted))

RECURSIVE SortByKey(_)
SortByKey(m) ==
    IF m = <<>> THEN <<>> ELSE InsertByKey(Head(m), SortByKey(Tail(m)))

\* json.dump(self, db, indent=4, sort_keys=True, cls=DecisionMatrixEncoder)
Encode(m) ==
    LET items == SortByKey(m)
    IN  <<OpenTok>> \o [i \in 1..Len(items) |-> Token("entry", items[i])] \o <<CloseTok>>

\* the text is one JSON object
WellFormed(content) ==
    /\ Len(content) >= 2
    /\ content[1] = OpenTok
    /\ content[Len(content)] = CloseTok
    /\ \A i \in 2..(Len(content) - 1) : content[i].tok = "entry"

\* Response.from_string raises ValueError for a name outside RESPONSES
from_string_raises(name) == name \notin RESPONSES

RECURSIVE FillDict(_, _)
FillDict(m, items) ==
    IF items = <<>> THEN m ELSE FillDict(DictSet(m, Head(items)), Tail(items))

\* faulty variant: an entry with an unknown response name is skipped, the
\* others are kept
load_SkipBad(dk) ==
    IF ~dk.exists \/ ~WellFormed(dk.content) THEN <<>>
    ELSE LET items == [i \in 1..(Len(dk.content) - 2) |-> dk.content[i + 1].item]
         IN  FillDict(<<>>, SelectSeq(items, LAMBDA d : ~from_string_raises(d.response)))

\* DecisionMatrix.load: any failure yields the empty matrix
load(dk) ==
    IF ~dk.exists \/ ~WellFormed(dk.content) THEN <<>>
    ELSE LET items == [i \in 1..(Len(dk.content) - 2) |-> dk.content[i + 1].item]
         IN  IF \E i \in 1..Len(items) : from_string_raises(items[i].response)
             THEN <<>>
             ELSE FillDict(<<>>, items)

\* DecisionMatrix.save run to completion by a process alone: the temporary
\* file is written in full and renamed over the document
save(m) == File(Encode(m))

(* ---------------------------- the policy files ------------------------- *)

\* files: fingerprint -> content, for the policy files that exist
NoFiles == [k \in {} |-> <<>>]

PolicyLine(source, target) == <<source, target, "allow">>

grant_for(fl, source, target, k) ==
    IF k \in DOMAIN fl THEN fl
    ELSE [x \in DOMAIN fl \cup {k} |-> IF x = k THEN PolicyLine(source, target) ELSE fl[x]]

\* os.unlink, a missing file ignored
revoke_for(fl, source, target, k) == [x \in DOMAIN fl \ {k} |-> fl[x]]

\* the loop over matrix.items(): st = [files, existing]
RECURSIVE ApplyItems(_, _)
ApplyItems(st, m) ==
    IF m = <<>> THEN st
    ELSE LET d == Head(m)
             fl2 == IF is_allow(d.response)
                    THEN grant_for(st.files, d.source, d.target, d.key)
                    ELSE revoke_for(st.files, d.source, d.target, d.key)
         IN  ApplyItems([files |-> fl2, existing |-> st.existing \ {d.key}], Tail(m))

\* faulty variant: the files left of the glob are not removed
KeepExisting(st) == st.files

\* the final loop: unlink what is left of the glob
UnlinkExisting(st) == [x \in DOMAIN st.files \ st.existing |-> st.files[x]]

apply_policy_changes_from(fl, m) ==
    UnlinkExisting(ApplyItems([files |-> fl, existing |-> DOMAIN fl], m))

(* ---------------------------- DecisionMatrix --------------------------- *)

\* what an operation works on: the matrix of the process, the policy files
\* and the document at POLICY_DB
Store(m, fl, dk) == [matrix |-> m, files |-> fl, disk |-> dk]

\* sorted(matches, key=lambda m: len(m[1].folder)): stable, ascending
RECURSIVE InsertByLen(_, _)
InsertByLen(e, sorted) ==
    IF sorted = <<>> THEN <<e>>
    ELSE IF Len(e.folder) < Len(Head(sorted).folder) THEN <<e>> \o sorted
    ELSE <<Head(sorted)>> \o InsertByLen(e, Tail(sorted))

RECURSIVE SortByLen(_)
SortByLen(ms) ==
    IF ms = <<>> THEN <<>>
    ELSE InsertByLen(ms[Len(ms)], SortByLen(SubSeq(ms, 1, Len(ms) - 1)))

\* faulty variant: the arguments of contains exchanged
Matches_Swapped(m, source, target, folder) ==
    SelectSeq(m, LAMBDA d : /\ source = d.source
                            /\ target = d.target
                            /\ contains(d.folder, folder))

Matches(m, source, target, folder) ==
    SelectSeq(m, LAMBDA d : /\ source = d.source
                            /\ target = d.target
                            /\ contains(folder, d.folder))

\* faulty variant: the most specific match is taken whatever its response
TakeMostSpecific(order) == order[1]

\* the for loop with its break: the loop variables keep the item the loop
\* stopped at, which is the first allow item or else the last item visited
ForBreakOnAllow(order) ==
    IF \E i \in 1..Len(order) : is_allow(order[i].response)
    THEN order[CHOOSE i \in 1..Len(order) :
                 /\ is_allow(order[i].response)
                 /\ \A j \in 1..(i - 1) : ~is_allow(order[j].response)]
    ELSE order[Len(order)]

lookup_decision(m, source, target, folder) ==
    LET matches == Matches(m, source, target, folder)
    IN  IF matches # <<>>
        THEN LET match == ForBreakOnAllow(Reverse(SortByLen(matches)))
             IN  [match |-> match, fingerprint |-> match.key]
        ELSE [match |-> NoDecision,
              fingerprint |-> fingerprint_decision(source, target, folder)]

\* faulty variant: the one-time entry is never deleted
revoke_Never(st, k) == st

\* faulty variant: the entry is deleted and the files reconciled, the document not saved
revoke_NoSave(st, k) ==
    IF k \in Keys(st.matrix) /\ is_onetime(DictGet(st.matrix, k).response)
    THEN LET m2 == DictDel(st.matrix, k)
         IN  Store(m2, apply_policy_changes_from(st.files, m2), st.disk)
    ELSE st

\* faulty variant: the entry is erased whatever its response
revoke_AnyResponse(st, k) ==
    IF k \in Keys(st.matrix)
    THEN LET m2 == DictDel(st.matrix, k)
         IN  Store(m2, apply_policy_changes_from(st.files, m2), save(m2))
    ELSE st

revoke_onetime_accesses_for_fingerprint(st, k) ==
    IF k \in Keys(st.matrix) /\ is_onetime(DictGet(st.matrix, k).response)
    THEN LET m2 == DictDel(st.matrix, k)
         IN  Store(m2, apply_policy_changes_from(st.files, m2), save(m2))
    ELSE st

\* faulty variant: the response of a one-time match is reported too
ReportAnyMatch(match) == IF match # NoDecision THEN match.response ELSE "None"

\* the response lookup_prior_authorization returns for the decision found
PriorResponse(match) ==
    IF match # NoDecision /\ ~is_onetime(match.response) THEN match.response ELSE "None"

lookup_prior_authorization(st, source, target, folder) ==
    LET found == lookup_decision(st.matrix, source, target, folder)
        st2 == revoke_onetime_accesses_for_fingerprint(st, found.fingerprint)
    IN  [store |-> st2,
         response |-> PriorResponse(found.match),
         fingerprint |-> found.fingerprint]

\* a BLOCK is recorded as DENY_ALWAYS ...
BlockResponse(response) == IF is_block(response) THEN "DENY_ALWAYS" ELSE response

\* faulty variant: a BLOCK keeps the folder of the request
KeepFolder(response, folder) == folder

\* ... of the root directory
BlockFolder(response, folder) == IF is_block(response) THEN Root ELSE folder

\* faulty variant: the decision is stored and the files reconciled, the document not saved
process_NoSave(st, source, target, folder, response) ==
    LET response2 == BlockResponse(response)
        folder2 == BlockFolder(response, folder)
        fingerprint == fingerprint_decision(source, target, folder2)
        m2 == DictSet(st.matrix, Decision(fingerprint, source, target, folder2, response2))
    IN  [store |-> Store(m2, apply_policy_changes_from(st.files, m2), st.disk),
         fingerprint |-> fingerprint]

\* faulty variant: the key is the fingerprint of the folder as requested,
\* not of the folder recorded
process_KeyOfRequest(st, source, target, folder, response) ==
    LET response2 == BlockResponse(response)
        folder2 == BlockFolder(response, folder)
        fingerprint == fingerprint_decision(source, target, folder)
        m2 == DictSet(st.matrix, Decision(fingerprint, source, target, folder2, response2))
    IN  [store |-> Store(m2, apply_policy_changes_from(st.files, m2), save(m2)),
         fingerprint |-> fingerprint]

process_authorization_request(st, source, target, folder, response) ==
    LET response2 == BlockResponse(response)
        folder2 == BlockFolder(response, folder)
        fingerprint == fingerprint_decision(source, target, folder2)
        m2 == DictSet(st.matrix, Decision(fingerprint, source, target, folder2, response2))
    IN  [store |-> Store(m2, apply_policy_changes_from(st.files, m2), save(m2)),
         fingerprint |-> fingerprint]

\* faulty variant: the one-time entry is left in the matrix
lookup_decision_folder_NoRevoke(st, k, requested_folder) ==
    LET match == DictGet(st.matrix, k)
        ok == match # NoDecision /\ contains(requested_folder, match.folder)
    IN  [store |-> st, some |-> ok, folder |-> IF ok THEN match.folder ELSE <<>>]

\* faulty variant: the one-time entry is erased only when the folder is
\* returned
lookup_decision_folder_RevokeOnSuccess(st, k, requested_folder) ==
    LET match == DictGet(st.matrix, k)
        ok == match # NoDecision /\ contains(requested_folder, match.folder)
    IN  [store |-> IF ok THEN revoke_onetime_accesses_for_fingerprint(st, k) ELSE st,
         some |-> ok, folder |-> IF ok THEN match.folder ELSE <<>>]

lookup_decision_folder(st, k, requested_folder) ==
    LET match == DictGet(st.matrix, k)
        st2 == revoke_onetime_accesses_for_fingerprint(st, k)
        ok == match # NoDecision /\ contains(requested_folder, match.folder)
    IN  [store |-> st2, some |-> ok, folder |-> IF ok THEN match.folder ELSE <<>>]

(* ---------------------------- one process: the public operations ------- *)

Procs == {"p1", "p2"}

\* the last call, what it returned, and the policy files its log lines
\* ("Creating", "Removing") name
NoCall ==
    [op |-> "none", source |-> "", target |-> "", folder |-> <<>>, response |-> "None",
     key |-> 0 - 1, match |-> NoDecision, result |-> "None", some |-> FALSE,
     rfolder |-> <<>>, mutated |-> FALSE, fresh |-> FALSE, created |-> {}, removed |-> {}]

Call(op, source, target, folder) ==
    [NoCall EXCEPT !.op = op, !.source = source, !.target = target, !.folder = folder]

\* the effect of a call on the store, as the record of the call tells it
Effect(r, st) ==
    [r EXCEPT !.mutated = st.matrix # matrix,
              !.created = DOMAIN st.files \ DOMAIN files,
              !.removed = DOMAIN files \ DOMAIN st.files]

Now == Store(matrix, files, disk)

SetStore(st) ==
    /\ matrix' = st.matrix
    /\ files' = st.files
    /\ disk' = st.disk

SaverIdle ==
    /\ tmp = NoFile
    /\ pmatrix = [p \in Procs |-> <<>>]
    /\ existing_policy_files = [p \in Procs |-> {}]
    /\ pc = [p \in Procs |-> "idle"]
    /\ fdAt = [p \in Procs |-> "none"]
    /\ off = [p \in Procs |-> 0]

\* the first run: no document, no policy file
Init ==
    /\ matrix = load(NoFile)
    /\ files = NoFiles
    /\ disk = NoFile
    /\ ret = NoCall
    /\ seen = disk
    /\ SaverIdle

Load ==
    /\ matrix' = load(disk)
    /\ ret' = Call("load", "", "", <<>>)
    /\ UNCHANGED <<files, disk, seen, saverVars>>

LookupDecision(source, target, folder) ==
    LET r == lookup_decision(matrix, source, target, folder)
    IN  /\ ret' = [Call("lookup_decision", source, target, folder) EXCEPT
                     !.key = r.fingerprint, !.match = r.match,
                     !.some = r.match # NoDecision]
        /\ UNCHANGED <<matrix, files, disk, seen, saverVars>>

RevokeOnetime(k) ==
    LET st2 == revoke_onetime_accesses_for_fingerprint(Now, k)
    IN  /\ SetStore(st2)
        /\ ret' = Effect([Call("revoke", "", "", <<>>) EXCEPT
                            !.key = k, !.match = DictGet(matrix, k)], st2)
        /\ UNCHANGED <<seen, saverVars>>

\* match is the decision lookup_decision gave the call
LookupPriorAuthorization(source, target, folder) ==
    LET r == lookup_prior_authorization(Now, source, target, folder)
    IN  /\ SetStore(r.store)
        /\ ret' = Effect([Call("lookup_prior_authorization", source, target, folder) EXCEPT
                            !.key = r.fingerprint,
                            !.match = lookup_decision(matrix, source, target, folder).match,
                            !.result = r.response, !.some = r.response # "None"], r.store)
        /\ UNCHANGED <<seen, saverVars>>

\* fresh: no entry matched the request before the call
ProcessAuthorizationRequest(source, target, folder, response) ==
    LET r == process_authorization_request(Now, source, target, folder, response)
    IN  /\ r.fingerprint \in Keys(matrix) \/ Len(matrix) < MaxEntries
        /\ SetStore(r.store)
        /\ ret' = [Effect([Call("process_authorization_request", source, target, folder)
                             EXCEPT !.response = response, !.key = r.fingerprint,
                                    !.match = DictGet(r.store.matrix, r.fingerprint),
                                    !.fresh = Matches(matrix, source, target, folder) = <<>>],
                          r.store)
                   EXCEPT !.mutated = TRUE]
        /\ UNCHANGED <<seen, saverVars>>

\* match is the decision the fingerprint held at the call
LookupDecisionFolder(k, requested_folder) ==
    LET r == lookup_decision_folder(Now, k, requested_folder)
    IN  /\ SetStore(r.store)
        /\ ret' = Effect([Call("lookup_decision_folder", "", "", requested_folder) EXCEPT
                            !.key = k, !.match = DictGet(matrix, k),
                            !.some = r.some, !.rfolder = r.folder], r.store)
        /\ UNCHANGED <<seen, saverVars>>

Next ==
    \/ Load
    \/ \E q \in Requests : LookupDecision(q[1], q[2], q[3])
    \/ \E k \in AllKeys : RevokeOnetime(k)
    \/ \E q \in Requests : LookupPriorAuthorization(q[1], q[2], q[3])
    \/ \E q \in Recordable, r \in RESPONSES :
          ProcessAuthorizationRequest(q[1], q[2], q[3], r)
    \/ \E k \in AllKeys, g \in ReqFolders : LookupDecisionFolder(k, g)

Spec == Init /\ [][Next]_vars

(* ---------------------------- one operation from any start ------------- *)

\* A process that has just loaded some document, beside some set of policy
\* files: the keys need not be the fingerprints of their triples, the
\* responses may be any of the five, the files need not match the matrix.
AnyKeys ==
    {fingerprint_decision("work", "vault", Root),
     fingerprint_decision("work", "vault", <<"/", "a">>), ForeignKey}

AnyTriples ==
    {<<"work", "vault", Root>>, <<"work", "vault", <<"/", "a">>>>, <<"work", "dev", Root>>}

AnyResponses == {"ALLOW_ALWAYS", "ALLOW_ONETIME", "DENY_ONETIME", "BLOCK"}

AnyMaps ==
    UNION {[D -> AnyTriples \X AnyResponses] :
             D \in {E \in SUBSET AnyKeys : Cardinality(E) <= MaxEntries}}

\* the items of a mapping key -> <<triple, response>>, in some order
RECURSIVE MapItems(_)
MapItems(g) ==
    IF DOMAIN g = {} THEN <<>>
    ELSE LET k == CHOOSE x \in DOMAIN g : TRUE
             rest == [x \in DOMAIN g \ {k} |-> g[x]]
         IN  <<Decision(k, g[k][1][1], g[k][1][2], g[k][1][3], g[k][2])>> \o MapItems(rest)

InitAny ==
    /\ \E g \in AnyMaps : disk = save(MapItems(g))
    /\ matrix = load(disk)
    /\ \E D \in SUBSET AnyKeys : files = [k \in D |-> PolicyLine("work", "vault")]
    /\ ret = NoCall
    /\ seen = disk
    /\ SaverIdle

\* the first call of that process
First == ret = NoCall

NextAny ==
    \/ First /\ Load
    \/ \E q \in Requests : First /\ LookupDecision(q[1], q[2], q[3])
    \/ \E k \in AllKeys : First /\ RevokeOnetime(k)
    \/ \E q \in Requests : First /\ LookupPriorAuthorization(q[1], q[2], q[3])
    \/ \E q \in Recordable, r \in RESPONSES :
          First /\ ProcessAuthorizationRequest(q[1], q[2], q[3], r)
    \/ \E k \in AllKeys, g \in ReqFolders : First /\ LookupDecisionFolder(k, g)

SpecAny == InitAny /\ [][NextAny]_vars

(* ---------------------------- load, from any file ---------------------- *)

\* The response names a document may hold: two of the five, a name that is
\* no attribute of RESPONSES (KeyError in from_string), and an attribute of
\* the class that is no Response (the assert in from_string fails).
DocResponses == {"ALLOW_ALWAYS", "DENY_ONETIME", "bogus", "__doc__"}

DocMaps ==
    UNION {[D -> DocResponses] :
             D \in {E \in SUBSET Recordable : Cardinality(E) <= MaxEntries}}

\* the items of a mapping triple -> response name, in some order
RECURSIVE DocItems(_)
DocItems(g) ==
    IF DOMAIN g = {} THEN <<>>
    ELSE LET q == CHOOSE x \in DOMAIN g : TRUE
             rest == [x \in DOMAIN g \ {q} |-> g[x]]
         IN  <<Decision(fingerprint_decision(q[1], q[2], q[3]), q[1], q[2], q[3], g[q])>>
                 \o DocItems(rest)

\* what open(POLICY_DB) may find: no file, a whole document, a document cut
\* short of its closing brace
LoadDocs ==
    {NoFile}
      \cup {File(Encode(DocItems(g))) : g \in DocMaps}
      \cup {File(SubSeq(Encode(DocItems(g)), 1, Len(DocItems(g)) + 1)) : g \in DocMaps}

InitLoad ==
    /\ disk \in LoadDocs
    /\ \E D \in SUBSET Fingerprints : files = [k \in D |-> PolicyLine("work", "vault")]
    /\ matrix = <<>>
    /\ ret = NoCall
    /\ seen = disk
    /\ SaverIdle

NextLoad == First /\ Load

SpecLoad == InitLoad /\ [][NextLoad]_vars

(* ---------------------------- contains, on any two paths --------------- *)

PathChars == {"/", "a", "b"}

\* the strings of PathChars, up to MaxPathLen characters
PathStrings == UNION {[1..n -> PathChars] : n \in 1..MaxPathLen}

\* absolute and normalized: a leading separator, no empty component, no
\* trailing separator but that of the root
NormalPaths ==
    {p \in PathStrings :
       /\ p[1] = "/"
       /\ Len(p) > 1 => p[Len(p)] # "/"
       /\ \A i \in 1..(Len(p) - 1) : ~(p[i] = "/" /\ p[i + 1] = "/")}

\* the call contains(needle, haystack) about to be made: folder holds the
\* needle, rfolder the haystack
InitContains ==
    /\ \E n \in NormalPaths, h \in NormalPaths :
          ret = [Call("contains?", "", "", n) EXCEPT !.rfolder = h]
    /\ matrix = <<>>
    /\ files = NoFiles
    /\ disk = NoFile
    /\ seen = disk
    /\ SaverIdle

\* some: the value contains returned
Contains ==
    /\ ret.op = "contains?"
    /\ ret' = [ret EXCEPT !.op = "contains", !.some = contains(ret.folder, ret.rfolder)]
    /\ UNCHANGED <<matrix, files, disk, seen, saverVars>>

NextContains == Contains

SpecContains == InitContains /\ [][NextContains]_vars

(* ---------------------------- save, step by step, by several processes -- *)

\* Every process writes POLICY_DB + ".tmp", one name for all of them.  At
\* most one file is at each of the two paths; fdAt tells where the file a
\* process holds open is now: at the temporary path, at the document's
\* path (after a rename by another process), or unlinked.

SaveItemA == Decision(fingerprint_decision("work", "vault", Root), "work", "vault", Root,
                      "DENY_ALWAYS")

SaveItemB == Decision(fingerprint_decision("work", "vault", <<"/", "a">>), "work", "vault",
                      <<"/", "a">>, "ALLOW_ALWAYS")

\* the matrices the processes hold when they come to save()
SaveMatrices == {<<>>, <<SaveItemA>>, <<SaveItemA, SaveItemB>>}

InitSave ==
    /\ matrix = <<SaveItemB>>
    /\ files = apply_policy_changes_from(NoFiles, matrix)
    /\ disk = save(matrix)
    /\ seen = disk
    /\ ret = NoCall
    /\ tmp = NoFile
    /\ pmatrix \in [Procs -> SaveMatrices]
    /\ existing_policy_files = [p \in Procs |-> {}]
    /\ pc = [p \in Procs |-> "open"]
    /\ fdAt = [p \in Procs |-> "none"]
    /\ off = [p \in Procs |-> 0]

\* a write of data at offset o: the file grows, with a hole if it was
\* truncated below o in the meantime
WriteAt(content, o, data) ==
    LET n == IF Len(content) > o + Len(data) THEN Len(content) ELSE o + Len(data)
    IN  [i \in 1..n |-> IF i > o /\ i <= o + Len(data) THEN data[i - o]
                        ELSE IF i <= Len(content) THEN content[i]
                        ELSE HoleTok]

\* open(POLICY_DB + ".tmp", "w"): creates the file or truncates the one there
SaveOpen(p) ==
    /\ pc[p] = "open"
    /\ tmp' = File(<<>>)
    /\ fdAt' = [fdAt EXCEPT ![p] = "tmp"]
    /\ off' = [off EXCEPT ![p] = 0]
    /\ pc' = [pc EXCEPT ![p] = "write"]
    /\ UNCHANGED <<matrix, files, disk, ret, seen, pmatrix, existing_policy_files>>

\* json.dump reaches the file in one write or in several; after the last
\* one the with block closes the file
SaveWrite(p, n) ==
    LET doc == Encode(pmatrix[p])
        data == SubSeq(doc, off[p] + 1, off[p] + n)
    IN  /\ pc[p] = "write"
        /\ off[p] + n <= Len(doc)
        /\ tmp' = IF fdAt[p] = "tmp" THEN File(WriteAt(tmp.content, off[p], data)) ELSE tmp
        /\ disk' = IF fdAt[p] = "real" THEN File(WriteAt(disk.content, off[p], data)) ELSE disk
        /\ off' = [off EXCEPT ![p] = off[p] + n]
        /\ pc' = [pc EXCEPT ![p] = IF off[p] + n = Len(doc) THEN "chmod" ELSE "write"]
        /\ fdAt' = [fdAt EXCEPT ![p] = IF off[p] + n = Len(doc) THEN "none" ELSE fdAt[p]]
        /\ UNCHANGED <<matrix, files, ret, seen, pmatrix, existing_policy_files>>

\* os.chmod(POLICY_DB + ".tmp", 0o664): raises when the path is gone
SaveChmod(p) ==
    /\ pc[p] = "chmod"
    /\ pc' = [pc EXCEPT ![p] = IF tmp.exists THEN "rename" ELSE "raised"]
    /\ UNCHANGED <<matrix, files, disk, tmp, ret, seen, pmatrix, existing_policy_files, fdAt, off>>

\* os.rename(POLICY_DB + ".tmp", POLICY_DB): the file at the temporary path
\* becomes the document, the old document is unlinked
SaveRename(p) ==
    /\ pc[p] = "rename"
    /\ IF tmp.exists
       THEN /\ disk' = tmp
            /\ tmp' = NoFile
            /\ fdAt' = [q \in Procs |-> CASE fdAt[q] = "tmp" -> "real"
                                          [] fdAt[q] = "real" -> "unlinked"
                                          [] OTHER -> fdAt[q]]
            /\ pc' = [pc EXCEPT ![p] = "done"]
       ELSE /\ pc' = [pc EXCEPT ![p] = "raised"]
            /\ UNCHANGED <<disk, tmp, fdAt>>
    /\ UNCHANGED <<matrix, files, ret, seen, pmatrix, existing_policy_files, off>>

\* another process reads the document: DecisionMatrix.load
ReaderLoad ==
    /\ seen' = disk
    /\ matrix' = load(disk)
    /\ UNCHANGED <<files, disk, tmp, ret, pmatrix, existing_policy_files, pc, fdAt, off>>

NextSave ==
    \/ \E p \in Procs : SaveOpen(p)
    \/ \E p \in Procs : \E n \in 1..Len(Encode(pmatrix[p])) : SaveWrite(p, n)
    \/ \E p \in Procs : SaveChmod(p)
    \/ \E p \in Procs : SaveRename(p)
    \/ ReaderLoad

SpecSave == InitSave /\ [][NextSave]_vars

(* ---------------------------- two processes, each one mutating call ---- *)

\* Each process loads the document, changes its matrix, reconciles the
\* policy files (apply_policy_changes_from, one file operation per step)
\* and saves (the steps of save above).  grant_for is taken as one step.

RaceItem == Decision(fingerprint_decision("work", "vault", <<"/", "a", "/", "b">>),
                     "work", "vault", <<"/", "a", "/", "b">>, "ALLOW_ONETIME")

\* the decisions the processes record
RaceRecords ==
    {<<"work", "vault", <<"/", "a">>, "ALLOW_ALWAYS">>,
     <<"work", "vault", Root, "DENY_ALWAYS">>}

InitRace ==
    /\ matrix = <<RaceItem>>
    /\ files = apply_policy_changes_from(NoFiles, matrix)
    /\ disk = save(matrix)
    /\ seen = disk
    /\ ret = NoCall
    /\ tmp = NoFile
    /\ pmatrix = [p \in Procs |-> <<>>]
    /\ pc = [p \in Procs |-> "load"]
    /\ fdAt = [p \in Procs |-> "none"]
    /\ off = [p \in Procs |-> 0]
    /\ existing_policy_files = [p \in Procs |-> {}]

\* DecisionMatrix.load() of the process
ProcLoad(p) ==
    /\ pc[p] = "load"
    /\ pmatrix' = [pmatrix EXCEPT ![p] = load(disk)]
    /\ pc' = [pc EXCEPT ![p] = "mutate"]
    /\ UNCHANGED <<matrix, files, disk, tmp, ret, seen, fdAt, off, existing_policy_files>>

\* process_authorization_request up to self[fingerprint] = decision
ProcRecord(p, source, target, folder, response) ==
    LET response2 == BlockResponse(response)
        folder2 == BlockFolder(response, folder)
        fingerprint == fingerprint_decision(source, target, folder2)
    IN  /\ pc[p] = "mutate"
        /\ pmatrix' = [pmatrix EXCEPT ![p] =
                         DictSet(pmatrix[p],
                                 Decision(fingerprint, source, target, folder2, response2))]
        /\ pc' = [pc EXCEPT ![p] = "glob"]
        /\ UNCHANGED <<matrix, files, disk, tmp, ret, seen, fdAt, off, existing_policy_files>>

\* revoke_onetime_accesses_for_fingerprint up to del self[fingerprint]
ProcRevoke(p, k) ==
    /\ pc[p] = "mutate"
    /\ k \in Keys(pmatrix[p])
    /\ is_onetime(DictGet(pmatrix[p], k).response)
    /\ pmatrix' = [pmatrix EXCEPT ![p] = DictDel(pmatrix[p], k)]
    /\ pc' = [pc EXCEPT ![p] = "glob"]
    /\ UNCHANGED <<matrix, files, disk, tmp, ret, seen, fdAt, off, existing_policy_files>>

\* where apply_policy_changes_from goes once the loop over the matrix is
\* over: to the loop over the files left, or out of it and on to save()
AfterItems(left) == IF left = {} THEN "open" ELSE "unlink"

\* existing_policy_files = glob.glob(self.FNTPL % "*")
ApplyGlob(p) ==
    /\ pc[p] = "glob"
    /\ existing_policy_files' = [existing_policy_files EXCEPT ![p] = DOMAIN files]
    /\ off' = [off EXCEPT ![p] = 0]
    /\ pc' = [pc EXCEPT ![p] = IF pmatrix[p] # <<>> THEN "items"
                               ELSE AfterItems(DOMAIN files)]
    /\ UNCHANGED <<matrix, files, disk, tmp, ret, seen, pmatrix, fdAt>>

\* one turn of the loop over matrix.items()
ApplyItem(p) ==
    LET d == pmatrix[p][off[p] + 1]
        left == existing_policy_files[p] \ {d.key}
    IN  /\ pc[p] = "items"
        /\ existing_policy_files' = [existing_policy_files EXCEPT ![p] = left]
        /\ files' = IF is_allow(d.response)
                    THEN grant_for(files, d.source, d.target, d.key)
                    ELSE revoke_for(files, d.source, d.target, d.key)
        /\ off' = [off EXCEPT ![p] = off[p] + 1]
        /\ pc' = [pc EXCEPT ![p] = IF off[p] + 1 < Len(pmatrix[p]) THEN "items"
                                   ELSE AfterItems(left)]
        /\ UNCHANGED <<matrix, disk, tmp, ret, seen, pmatrix, fdAt>>

\* one turn of the loop over the files left: os.unlink(p) raises
\* FileNotFoundError when the file is gone
ApplyUnlink(p, k) ==
    /\ pc[p] = "unlink"
    /\ k \in existing_policy_files[p]
    /\ IF k \in DOMAIN files
       THEN /\ files' = [x \in DOMAIN files \ {k} |-> files[x]]
            /\ existing_policy_files' =
                 [existing_policy_files EXCEPT ![p] = existing_policy_files[p] \ {k}]
            /\ pc' = [pc EXCEPT ![p] = AfterItems(existing_policy_files[p] \ {k})]
       ELSE /\ pc' = [pc EXCEPT ![p] = "unlink raised"]
            /\ UNCHANGED <<files, existing_policy_files>>
    /\ UNCHANGED <<matrix, disk, tmp, ret, seen, pmatrix, fdAt, off>>

NextRace ==
    \/ \E p \in Procs : ProcLoad(p)
    \/ \E p \in Procs, q \in RaceRecords : ProcRecord(p, q[1], q[2], q[3], q[4])
    \/ \E p \in Procs, k \in AllKeys : ProcRevoke(p, k)
    \/ \E p \in Procs : ApplyGlob(p)
    \/ \E p \in Procs : ApplyItem(p)
    \/ \E p \in Procs, k \in AllKeys : ApplyUnlink(p, k)
    \/ \E p \in Procs : SaveOpen(p)
    \/ \E p \in Procs : \E n \in 1..Len(Encode(pmatrix[p])) : SaveWrite(p, n)
    \/ \E p \in Procs : SaveChmod(p)
    \/ \E p \in Procs : SaveRename(p)

SpecRace == InitRace /\ [][NextRace]_vars

(* ======================================================================= *)
(* The claims                                                              *)
(* ======================================================================= *)

AllowKeys(m) == {k \in Keys(m) : is_allow(DictGet(m, k).response)}

Mutating(r) ==
    \/ r.op = "process_authorization_request"
    \/ r.op \in {"revoke", "lookup_prior_authorization", "lookup_decision_folder"}
       /\ r.mutated

\* C1: whenever a mutating operation has returned (a recording, or a lookup
\* or revoke that deleted a one-time entry), whatever matrix and policy
\* files the process started from, the fingerprints that have a policy file
\* are exactly the fingerprints of the matrix whose response is allow-type.
C1_FilesAreAllowKeys == Mutating(ret) => DOMAIN files = AllowKeys(matrix)

\* C1 witness: a lookup deleted a one-time entry, and the reconciliation
\* it ran removed the file of a fingerprint absent from the matrix, created
\* the file an allow entry lacked, and an allow entry is left
C1_Witness ==
    /\ ret.op = "lookup_prior_authorization"
    /\ ret.mutated
    /\ \E k \in ret.removed : k \notin Keys(matrix) /\ k # ret.key
    /\ ret.created # {}
    /\ AllowKeys(matrix) # {}

\* the entries that match the request of the last call: same source, same
\* target, a folder that contains the requested one
RetMatches == SeqToSet(Matches(matrix, ret.source, ret.target, ret.folder))

\* C2: when at least one entry matches the request and no matching entry is
\* allow-type, lookup_decision returns the matching entry with the longest
\* folder string, together with that entry's fingerprint.
C2_MostSpecificWhenNoAllow ==
    (/\ ret.op = "lookup_decision"
     /\ RetMatches # {}
     /\ \A d \in RetMatches : ~is_allow(d.response))
    => /\ ret.match \in RetMatches
       /\ \A d \in RetMatches : Len(d.folder) <= Len(ret.match.folder)
       /\ ret.key = ret.match.key

\* C3: when at least one matching entry is allow-type, lookup_decision
\* returns the allow-type matching entry with the longest folder string, even
\* when a non-allow entry with a longer folder matches too.
C3_LongestAllowWins ==
    (/\ ret.op = "lookup_decision"
     /\ \E d \in RetMatches : is_allow(d.response))
    => /\ ret.match \in RetMatches
       /\ is_allow(ret.match.response)
       /\ \A d \in RetMatches : is_allow(d.response) => Len(d.folder) <= Len(ret.match.folder)
       /\ ret.key = ret.match.key

\* C3 witness: ALLOW_ALWAYS on /a and DENY_ALWAYS on /a/b, the lookup of /a/b
\* returned the allow
C3_Witness ==
    /\ ret.op = "lookup_decision"
    /\ ret.folder = <<"/", "a", "/", "b">>
    /\ ret.match.folder = <<"/", "a">>
    /\ ret.match.response = "ALLOW_ALWAYS"
    /\ \E d \in RetMatches : d.folder = <<"/", "a", "/", "b">> /\ d.response = "DENY_ALWAYS"

\* the root decision a BLOCK of the pair leaves in the matrix
RootDecision(source, target) ==
    Decision(fingerprint_decision(source, target, Root), source, target, Root, "DENY_ALWAYS")

\* C4: while the root decision that a BLOCK recorded for a pair is in the
\* matrix, lookup_decision returns that root decision for every folder of
\* the pair, whatever else is recorded for the pair.
C4_RootBlockAnswersEveryLookup ==
    (/\ ret.op = "lookup_decision"
     /\ RootDecision(ret.source, ret.target) \in SeqToSet(matrix))
    => /\ ret.match = RootDecision(ret.source, ret.target)
       /\ ret.key = fingerprint_decision(ret.source, ret.target, Root)

\* C5: process_authorization_request with BLOCK stores exactly one new or
\* replaced entry, with key fingerprint(s, t, "/"), folder "/" and response
\* DENY_ALWAYS, and returns that key; no stored decision has response BLOCK.
C5_BlockStoredAsRootDeny ==
    /\ [](/\ \A i \in 1..Len(matrix) : matrix[i].response # "BLOCK"
          /\ (ret.op = "process_authorization_request" /\ ret.response = "BLOCK")
             => /\ ret.key = fingerprint_decision(ret.source, ret.target, Root)
                /\ DictGet(matrix, ret.key) = RootDecision(ret.source, ret.target))
    /\ [][(ret'.op = "process_authorization_request" /\ ret'.response = "BLOCK")
          => /\ Keys(matrix') = Keys(matrix) \cup {ret'.key}
             /\ \A k \in Keys(matrix) \ {ret'.key} : DictGet(matrix', k) = DictGet(matrix, k)]_vars

\* C5 witness: a BLOCK asked for /a/b was recorded beside another entry
C5_Witness ==
    /\ ret.op = "process_authorization_request"
    /\ ret.response = "BLOCK"
    /\ ret.folder = <<"/", "a", "/", "b">>
    /\ Len(matrix) = 2
    /\ ret.match = RootDecision("work", "vault")

\* the step from a recording of ALLOW_ONETIME for a triple nothing matched
\* to a lookup_prior_authorization of the same triple
OnetimeGrantThenPrior ==
    /\ ret.op = "process_authorization_request"
    /\ ret.response = "ALLOW_ONETIME"
    /\ ret.fresh
    /\ ret'.op = "lookup_prior_authorization"
    /\ <<ret'.source, ret'.target, ret'.folder>> = <<ret.source, ret.target, ret.folder>>

\* C6, as stated: from a matrix with no entry matching (s, t, f), after
\* ALLOW_ONETIME is recorded for it the first lookup_prior_authorization of
\* (s, t, f) returns the response ALLOW_ONETIME and erases the entry.
C6_PriorReturnsOnetime ==
    [][OnetimeGrantThenPrior
       => ret'.result = "ALLOW_ONETIME" /\ ret.key \notin Keys(matrix')]_vars

\* C6, amended: that lookup_prior_authorization returns no response, with
\* the fingerprint of the entry, and erases the entry.
C6_PriorConsumesOnetime ==
    [][OnetimeGrantThenPrior
       => /\ ret'.result = "None"
          /\ ret'.key = ret.key
          /\ ret'.mutated
          /\ ret.key \notin Keys(matrix')]_vars

\* C6 witness: lookup_prior_authorization of a triple found the ALLOW_ONETIME
\* recorded for exactly that triple and consumed it, leaving the matrix empty
C6_Witness ==
    /\ ret.op = "lookup_prior_authorization"
    /\ ret.match = Decision(fingerprint_decision(ret.source, ret.target, ret.folder),
                            ret.source, ret.target, ret.folder, "ALLOW_ONETIME")
    /\ ret.mutated
    /\ ret.result = "None"
    /\ matrix = <<>>

\* C7: lookup_prior_authorization never returns a one-time response: it
\* returns none or the ALLOW_ALWAYS or DENY_ALWAYS response of the decision
\* it found, and none when that decision is one-time.
C7_PriorNeverReportsOnetime ==
    ret.op = "lookup_prior_authorization"
    => /\ ret.result \in {"None", "ALLOW_ALWAYS", "DENY_ALWAYS"}
       /\ ret.result # "None" => ret.result = ret.match.response /\ ret.match \in SeqToSet(matrix)
       /\ is_onetime(ret.match.response) => ret.result = "None"

\* C7 witness: the decision found was DENY_ONETIME and none was returned
C7_Witness ==
    /\ ret.op = "lookup_prior_authorization"
    /\ ret.match.response = "DENY_ONETIME"
    /\ ret.result = "None"

\* the last call was a lookup_prior_authorization of (s, t, f) that consumed
\* the one-time decision recorded for (s, t, f)
PriorConsumed(r) ==
    /\ r.op = "lookup_prior_authorization"
    /\ r.mutated
    /\ r.key = fingerprint_decision(r.source, r.target, r.folder)

DocKeys(dk) == {dk.content[i].item.key : i \in 1..Len(dk.content)} \ {NoDecision.key}

\* C8: once lookup_prior_authorization(s, t, f) has consumed the one-time
\* decision recorded for (s, t, f), the entry is in neither the matrix, the
\* document nor the policy files, and a second call for the triple, no
\* other entry matching, returns no decision and fingerprint(s, t, f).
C8_ConsumedThenNoDecision ==
    /\ [](PriorConsumed(ret)
          => /\ ret.key \notin Keys(matrix)
             /\ disk.exists /\ ret.key \notin DocKeys(disk)
             /\ ret.key \notin DOMAIN files)
    /\ [][(/\ PriorConsumed(ret)
           /\ Matches(matrix, ret.source, ret.target, ret.folder) = <<>>
           /\ ret'.op = "lookup_prior_authorization"
           /\ <<ret'.source, ret'.target, ret'.folder>> = <<ret.source, ret.target, ret.folder>>)
          => /\ ret'.result = "None"
             /\ ret'.match = NoDecision
             /\ ret'.key = fingerprint_decision(ret.source, ret.target, ret.folder)
             /\ ~ret'.mutated]_vars

\* C8 witness: the consumed decision was an allow whose policy file the call
\* removed, and another decision stays in the matrix and in the document
C8_Witness ==
    /\ PriorConsumed(ret)
    /\ ret.match.response = "ALLOW_ONETIME"
    /\ ret.removed = {ret.key}
    /\ Len(matrix) = 1
    /\ DocKeys(disk) = Keys(matrix)

\* the documents a save() writes in this run, and the one there at the start
CompleteDocs == {save(pmatrix[p]) : p \in Procs} \cup {save(<<SaveItemB>>)}

\* C9: with several processes in save() at once, the document at the real
\* path, and so every document a reader reads, is a complete document
\* written by one save() or the initial one.
C9_NoTornDocument == disk \in CompleteDocs /\ seen \in CompleteDocs

\* the document decodes to the matrix of the process
DiskIsMatrix(dk, m) ==
    /\ dk.exists
    /\ WellFormed(dk.content)
    /\ AsMap(load(dk)) = AsMap(m)

\* C10: whenever process_authorization_request returns, or a revoke that
\* deleted a one-time entry returns, the document decodes to exactly the
\* matrix; no step changes the matrix and leaves the document behind.
C10_MutationIsPersisted ==
    /\ [](Mutating(ret) => DiskIsMatrix(disk, matrix))
    /\ [][matrix' # matrix => DiskIsMatrix(disk', matrix')]_vars

\* C10 witness: a revoke deleted a one-time entry and the document holds the
\* one entry that is left
C10_Witness ==
    /\ ret.op = "revoke"
    /\ ret.mutated
    /\ Len(matrix) = 1
    /\ disk = File(Encode(matrix))

\* the cases of C11: no file, a text that is no JSON object, an entry whose
\* response name is none of the five
BadDocument(dk) ==
    \/ ~dk.exists
    \/ ~WellFormed(dk.content)
    \/ \E i \in 1..Len(dk.content) :
          dk.content[i].tok = "entry" /\ dk.content[i].item.response \notin RESPONSES

\* the entries of a document, as a mapping
DocMap(dk) ==
    [k \in DocKeys(dk) |->
       dk.content[CHOOSE i \in 1..Len(dk.content) : dk.content[i].item.key = k].item]

\* C11: load() returns a matrix in every case and never a part of the
\* document: from a missing or malformed document, or one with an entry
\* whose response name is none of the five, it returns the empty matrix,
\* the valid entries dropped too; from any other document it returns all
\* the entries; it leaves the document and the policy files as they were.
C11_LoadAllOrNothing ==
    [][ret'.op = "load" =>
         /\ disk' = disk
         /\ files' = files
         /\ BadDocument(disk) => matrix' = <<>>
         /\ ~BadDocument(disk) => AsMap(matrix') = DocMap(disk)]_vars

\* load() has read a document with a valid entry and an entry of unknown
\* response name, beside a policy file, and returned the empty matrix
C11_Witness ==
    /\ ret.op = "load"
    /\ matrix = <<>>
    /\ disk.exists /\ WellFormed(disk.content)
    /\ \E i \in 1..Len(disk.content) : disk.content[i].item.response = "ALLOW_ALWAYS"
    /\ \E i \in 1..Len(disk.content) : disk.content[i].item.response = "__doc__"
    /\ DOMAIN files # {}

\* the components of a path, as the claims speak of them
Components(p) == SplitPath(p, <<>>)

IsPrefix(s, t) == Len(s) <= Len(t) /\ \A i \in 1..Len(s) : s[i] = t[i]

\* the folder is f or lies under f
NestedUnder(folder, f) == IsPrefix(Components(f), Components(folder))

\* C12: for absolute normalized paths n and h, contains(n, h) is true
\* exactly when the components of h are a prefix of the components of n;
\* so contains(p, p) is true, contains("/a/b", "/a") is true and
\* contains("/ab", "/a") is false.
C12_ContainsIsComponentPrefix ==
    ret.op = "contains" =>
      /\ ret.some = NestedUnder(ret.folder, ret.rfolder)
      /\ ret.folder = ret.rfolder => ret.some
      /\ ret.folder = <<"/", "a", "/", "b">> /\ ret.rfolder = <<"/", "a">> => ret.some
      /\ ret.folder = <<"/", "a", "b">> /\ ret.rfolder = <<"/", "a">> => ~ret.some

\* contains("/ab", "/a") was called and returned false
C12_Witness ==
    /\ ret.op = "contains"
    /\ ret.folder = <<"/", "a", "b">>
    /\ ret.rfolder = <<"/", "a">>
    /\ ~ret.some

\* entry d is for the pair of the last call and its folder is the requested
\* one or an ancestor of it
Covers(d) ==
    /\ d.source = ret.source
    /\ d.target = ret.target
    /\ NestedUnder(ret.folder, d.folder)

\* C13: while the entry recorded by process_authorization_request(s, t, f,
\* ALLOW_ALWAYS) is in the matrix, lookup_decision(s, t, f') for f' equal to
\* or nested under f returns a decision, and, no other entry for (s, t)
\* containing f', that entry with the key fingerprint(s, t, f); for f' not
\* nested under f, a sibling with f as a string prefix included, the entry
\* is no match and is not returned.
C13_AllowAlwaysCoversSubfolders ==
    ret.op = "lookup_decision" =>
      \A i \in 1..Len(matrix) :
         LET d == matrix[i]
         IN  d.response = "ALLOW_ALWAYS" /\ d.source = ret.source /\ d.target = ret.target =>
               /\ Covers(d) =>
                    /\ ret.match # NoDecision
                    /\ (\A j \in 1..Len(matrix) : j # i => ~Covers(matrix[j])) =>
                         /\ ret.match = d
                         /\ ret.key = fingerprint_decision(d.source, d.target, d.folder)
               /\ ~Covers(d) => d \notin RetMatches /\ ret.match # d

\* ALLOW_ALWAYS on /a is the only entry; the lookup of /a/b returned it
C13_Witness ==
    /\ ret.op = "lookup_decision"
    /\ Len(matrix) = 1
    /\ matrix[1].response = "ALLOW_ALWAYS"
    /\ matrix[1].folder = <<"/", "a">>
    /\ ret.folder = <<"/", "a", "/", "b">>
    /\ ret.match = matrix[1]

\* C14: between the recording of a one-time decision under k and the next
\* recording under k at most one call lookup_decision_folder(k, g) returns
\* a folder.  A call that returns the folder of a one-time entry leaves k
\* out of the matrix; a call that finds no entry under k returns none; and k comes
\* into the matrix by a recording under k only.
C14_OnetimeFolderAtMostOnce ==
    [][/\ ret'.op = "lookup_decision_folder" /\ is_onetime(ret'.match.response) /\ ret'.some
            => ret'.key \notin Keys(matrix')
       /\ ret'.op = "lookup_decision_folder" /\ ret'.key \notin Keys(matrix)
            => ~ret'.some /\ ret'.key \notin Keys(matrix')
       /\ \A k \in AllKeys :
            k \notin Keys(matrix) /\ k \in Keys(matrix')
              => ret'.op = "process_authorization_request" /\ ret'.key = k]_vars

\* lookup_decision_folder returned the folder of a one-time entry, and the
\* entry is gone
C14_Witness ==
    /\ ret.op = "lookup_decision_folder"
    /\ ret.some
    /\ ret.match.response = "ALLOW_ONETIME"
    /\ ret.rfolder = ret.match.folder
    /\ ret.key \notin Keys(matrix)

\* the step is a call lookup_decision_folder(k, g) that found a one-time
\* entry under k and returned none, g not being in the entry's folder
FailedOnetimeLookup ==
    /\ ret'.op = "lookup_decision_folder"
    /\ is_onetime(ret'.match.response)
    /\ ~ret'.some

\* C15, as claimed: a call lookup_decision_folder(k, g) that returns none
\* because g is not contained in the authorized folder leaves the one-time
\* entry under k, and its policy file if allow, in place, so that a
\* following call with a contained folder returns the authorized folder.
C15_FailedLookupKeepsOnetime ==
    [][FailedOnetimeLookup =>
         /\ DictGet(matrix', ret'.key) = ret'.match
         /\ is_allow(ret'.match.response) => ret'.key \in DOMAIN files'
         /\ \A g \in ReqFolders :
              NestedUnder(g, ret'.match.folder) =>
                LET r == lookup_decision_folder(Store(matrix', files', disk'), ret'.key, g)
                IN  r.some /\ r.folder = ret'.match.folder]_vars

\* C15, amended: a call lookup_decision_folder(k, g) that returns none
\* because g is not contained in the authorized folder erases the one-time
\* entry under k and its policy file all the same, so that a following call
\* lookup_decision_folder(k, g') returns none for every g'.
C15_FailedLookupConsumesOnetime ==
    [][FailedOnetimeLookup =>
         /\ ret'.key \notin Keys(matrix')
         /\ ret'.key \notin DocKeys(disk')
         /\ ret'.key \notin DOMAIN files'
         /\ \A g \in ReqFolders :
              ~lookup_decision_folder(Store(matrix', files', disk'), ret'.key, g).some]_vars

\* the one-time allow on /a was asked for /ab: none was returned, the entry
\* and its policy file are gone
C15_Witness ==
    /\ ret.op = "lookup_decision_folder"
    /\ ret.match.response = "ALLOW_ONETIME"
    /\ ret.match.folder = <<"/", "a">>
    /\ ret.folder = <<"/", "a", "b">>
    /\ ~ret.some
    /\ ret.key \notin Keys(matrix)
    /\ ret.removed = {ret.key}

\* the response under the fingerprint the step's call acts on, before the
\* call: "None" when the fingerprint is absent
ActedOn == DictGet(matrix, ret'.key).response

\* the two calls are the same call
SameCall(r1, r2) ==
    /\ r1.op = r2.op
    /\ r1.source = r2.source /\ r1.target = r2.target /\ r1.folder = r2.folder
    /\ r1.key = r2.key

\* C17: lookup_decision leaves the matrix, the document and the policy
\* files unchanged in every state; lookup_prior_authorization,
\* lookup_decision_folder and revoke_onetime_accesses_for_fingerprint leave
\* the three unchanged when the fingerprint they act on is absent or holds
\* ALLOW_ALWAYS or DENY_ALWAYS, and the same call made again returns the
\* same result.
C17_LookupsKeepLastingDecisions ==
    [][/\ ret'.op = "lookup_decision" => UNCHANGED <<matrix, disk, files>>
       /\ (/\ ret'.op \in {"lookup_prior_authorization", "lookup_decision_folder", "revoke"}
           /\ ActedOn \in {"None", "ALLOW_ALWAYS", "DENY_ALWAYS"})
            => /\ UNCHANGED <<matrix, disk, files>>
               /\ DictGet(matrix', ret'.key).response = ActedOn
       /\ (/\ ret.op \in {"lookup_decision", "lookup_prior_authorization",
                          "lookup_decision_folder", "revoke"}
           /\ DictGet(matrix, ret.key).response = ret.match.response
           /\ ret.match.response \in {"None", "ALLOW_ALWAYS", "DENY_ALWAYS"}
           /\ SameCall(ret, ret'))
            => ret' = ret]_vars

\* lookup_decision_folder returned the folder of an ALLOW_ALWAYS entry,
\* which is still in the matrix, the document and the policy files
C17_Witness ==
    /\ ret.op = "lookup_decision_folder"
    /\ ret.some
    /\ ret.match.response = "ALLOW_ALWAYS"
    /\ DictGet(matrix, ret.key) = ret.match
    /\ ret.key \in DocKeys(disk)
    /\ ret.key \in DOMAIN files
    /\ ~ret.mutated

\* C18: in every matrix reached from the empty one by the public
\* operations each entry's key is the fingerprint of the entry's source,
\* target and folder, no two entries have the same triple, and a recording
\* for a triple that has an entry replaces the entry without adding one.
C18_KeyIsFingerprintOfEntry ==
    /\ [](/\ \A i \in 1..Len(matrix) :
               matrix[i].key = fingerprint_decision(matrix[i].source, matrix[i].target,
                                                    matrix[i].folder)
          /\ \A i, j \in 1..Len(matrix) :
               (/\ matrix[i].source = matrix[j].source
                /\ matrix[i].target = matrix[j].target
                /\ matrix[i].folder = matrix[j].folder) => i = j)
    /\ [][(/\ ret'.op = "process_authorization_request"
           /\ \E i \in 1..Len(matrix) :
                /\ matrix[i].source = ret'.match.source
                /\ matrix[i].target = ret'.match.target
                /\ matrix[i].folder = ret'.match.folder)
            => /\ Len(matrix') = Len(matrix)
               /\ DictGet(matrix', ret'.key) = ret'.match]_vars

\* BLOCK was recorded for /a while the root held an allow: the root entry
\* was replaced by the deny, its policy file removed, the other entry kept
C18_Witness ==
    /\ ret.op = "process_authorization_request"
    /\ ret.response = "BLOCK"
    /\ ret.folder = <<"/", "a">>
    /\ Len(matrix) = 2
    /\ ret.match.folder = Root
    /\ ret.removed = {ret.key}

\* C20: whenever lookup_decision_folder(k, g) returns a folder the entry
\* under k at the call is allow-type; for a DENY_ALWAYS or DENY_ONETIME
\* entry it returns none.
C20_FolderOnlyForAllow ==
    ret.op = "lookup_decision_folder" =>
      /\ ret.some => is_allow(ret.match.response)
      /\ ret.match.response \in {"DENY_ALWAYS", "DENY_ONETIME"} => ~ret.some

\* C16: no deletion of a policy file by apply_policy_changes_from fails on
\* a file that is gone: a process whose file was removed by another one
\* after it listed the files completes its reconciliation and goes on to
\* save().
C16_DeleteToleratesMissing == \A p \in Procs : pc[p] # "unlink raised"

\* the allow-type fingerprints of a document
DocAllowKeys(dk) ==
    {dk.content[i].item.key : i \in {j \in 1..Len(dk.content) :
                                       is_allow(dk.content[j].item.response)}}

\* C19: when both processes have loaded, run one mutating operation and
\* completed it, the fingerprints that have a policy file are the
\* allow-type fingerprints of the document on disk.
C19_FilesMatchFinalDocument ==
    (\A p \in Procs : pc[p] = "done") => DOMAIN files = DocAllowKeys(disk)

====
